---- MODULE Spec2Model ----
(***************************************************************************)
(* Model of the authorization facade of extended_example: the value types  *)
(* of models.py, the defaults of BaseAuthzed (authzed_base.py) and the     *)
(* remote client AuthzedGrpc (authzed_grpc.py).                            *)
(*                                                                         *)
(* A single caller invokes one facade operation at a time.  An operation   *)
(* that awaits a remote call is split at the await: the ...Call action     *)
(* runs the code up to the await and puts the remote request on `wire`,    *)
(* the ...Resume action runs the code after it on the response the remote  *)
(* side chose.  A generator that pulls a remote stream takes one step per  *)
(* item read and one per item yielded, its local variables kept in         *)
(* `frame`.  `Return` hands the outcome to the caller.                     *)
(***************************************************************************)
EXTENDS Integers, Sequences, FiniteSets, TLC

VARIABLES
    pc,       \* "idle", "await" (suspended in a remote call), "wait" (in asyncio.wait),
              \* "stream" (pulling a remote stream), "yield" (handing out items), "done"
    op,       \* the facade operation in progress, with its arguments
    wire,     \* the remote requests issued by the operation in progress, in order
    resp,     \* the response the remote side gave to the last remote request
    outcome,  \* what the operation handed to its caller: a value or an exception
    store,    \* the relationship tuples held by the remote service
    tasks,    \* resources_many: the asyncio tasks created, in creation order
    taskOf,   \* resources_many: the dict request -> task (index into tasks)
    lastWrite, \* history: the grant or revoke that was the last write to complete
    frame     \* the local variables of a generator suspended in its stream or at a yield

vars == <<pc, op, wire, resp, outcome, store, tasks, taskOf, lastWrite, frame>>

-----------------------------------------------------------------------------
(* Bounds of the model *)

MaxRequests == 2      \* longest list passed to check_many / resources_many
MaxPairs == 2         \* longest list of pairs in a bulk check response
MaxUpdates == 2       \* longest list passed to update / grant_many / revoke_many
MaxTreeSize == 6      \* most nodes and listed subjects, together, in an expansion tree

-----------------------------------------------------------------------------
(* Generic helpers *)

SeqsUpTo(S, n) == UNION {[1..k -> S] : k \in 0..n}

Range(s) == {s[i] : i \in DOMAIN s}

RECURSIVE Concat(_)
Concat(ss) == IF ss = <<>> THEN <<>> ELSE Head(ss) \o Concat(Tail(ss))

(* A Python dict: entries in insertion order, at most one entry per key.   *)
EmptyDict == <<>>

Keys(d) == {d[i].key : i \in DOMAIN d}

DictGet(d, k) == (CHOOSE i \in DOMAIN d : d[i].key = k)

DictValue(d, k) == d[DictGet(d, k)].value

\* d[k] = v
DictSet(d, k, v) ==
    IF k \in Keys(d)
    THEN [d EXCEPT ![DictGet(d, k)] = [key |-> k, value |-> v]]
    ELSE Append(d, [key |-> k, value |-> v])

-----------------------------------------------------------------------------
(* Identifiers: Union[str, int] as supplied by the caller, and str() of it *)

IntId(n) == [kind |-> "int", n |-> n, s |-> ""]
StrId(s) == [kind |-> "str", n |-> 0, s |-> s]

Digit(n) == <<"0", "1", "2", "3", "4", "5", "6", "7", "8", "9">>[n + 1]

RECURSIVE Decimal(_)
Decimal(n) == IF n < 10 THEN Digit(n) ELSE Decimal(n \div 10) \o Digit(n % 10)

\* str(identifier)
Str(id) == IF id.kind = "int" THEN Decimal(id.n) ELSE id.s

-----------------------------------------------------------------------------
(* models.py *)

Access == {"allow", "forbid", "undefined"}

\* Access.is_allowed answering true for everything but undefined
AccessIsAllowedUnlessUndefined(a) == a # "undefined"

\* Access.is_allowed
AccessIsAllowed(a) == a = "allow"

\* CheckRequest(...) without the validators: the identifiers stay as supplied
CheckRequestUnnormalised(subject_type, subject_id, resource_type, resource_id, permission) ==
    [subject_type |-> subject_type,
     subject_id |-> subject_id,
     resource_type |-> resource_type,
     resource_id |-> resource_id,
     permission |-> permission]

\* CheckRequest(...): both identifiers go through their "before" validators
CheckRequest(subject_type, subject_id, resource_type, resource_id, permission) ==
    [subject_type |-> subject_type,
     subject_id |-> StrId(Str(subject_id)),
     resource_type |-> resource_type,
     resource_id |-> StrId(Str(resource_id)),
     permission |-> permission]

-----------------------------------------------------------------------------
(* The remote protocol surface, as far as the client reads or writes it *)

HAS_PERMISSION == "PERMISSIONSHIP_HAS_PERMISSION"

Permissionships ==
    {"PERMISSIONSHIP_UNSPECIFIED", "PERMISSIONSHIP_NO_PERMISSION",
     HAS_PERMISSION, "PERMISSIONSHIP_CONDITIONAL_PERMISSION"}

ObjectReference(object_type, object_id) ==
    [object_type |-> object_type, object_id |-> object_id]

NoOp == [name |-> "none"]
NoResp == [kind |-> "none"]
NoOutcome == [kind |-> "none"]
NoWrite == [kind |-> "none"]
NoFrame == [kind |-> "none"]

Returns(v) == [kind |-> "return", value |-> v]
Raises(e) == [kind |-> "raise", error |-> e]

-----------------------------------------------------------------------------
(* Inputs of the permission checks *)

CheckArgs ==
    [subject_type : {"user"},
     subject_id : {IntId(1), StrId("1")},
     resource_type : {"doc"},
     resource_id : {IntId(42), StrId("42")},
     permission : {"view", "edit"}]

MakeCheckRequest(a) ==
    CheckRequest(a.subject_type, a.subject_id, a.resource_type, a.resource_id,
                 a.permission)

\* the (resource, permission, subject) item sent for, and echoed back with, a check
CheckItem(request) ==
    [resource |-> ObjectReference(request.resource_type, Str(request.resource_id)),
     permission |-> request.permission,
     subject |-> ObjectReference(request.subject_type, Str(request.subject_id))]

\* the items a bulk response may echo, whether the call asked for them or not
EchoItems ==
    {CheckItem(MakeCheckRequest(a)) : a \in CheckArgs}

BulkPairs ==
    [request : EchoItems, permissionship : Permissionships]

-----------------------------------------------------------------------------
(* AuthzedGrpc.check / is_allowed *)

\* check: the consistency chosen from the two flags
CheckConsistency(full_consistent, minimize_latency) ==
    IF full_consistent THEN "fully_consistent"
    ELSE IF minimize_latency THEN "minimize_latency"
    ELSE "none"

CheckPermissionRequest(request, full_consistent, minimize_latency) ==
    [rpc |-> "CheckPermission",
     resource |-> ObjectReference(request.resource_type, Str(request.resource_id)),
     permission |-> request.permission,
     subject |-> ObjectReference(request.subject_type, Str(request.subject_id)),
     consistency |-> CheckConsistency(full_consistent, minimize_latency)]

\* check answering undefined when the remote side reports no definite permissionship
CheckResultUndefinedWhenUnspecified(response) ==
    IF response.permissionship = HAS_PERMISSION THEN "allow"
    ELSE IF response.permissionship = "PERMISSIONSHIP_UNSPECIFIED" THEN "undefined"
    ELSE "forbid"

\* check: the Access made of the response
CheckResult(response) ==
    IF response.permissionship = HAS_PERMISSION THEN "allow" ELSE "forbid"

\* check, up to the await of CheckPermission
CheckCall(a, full_consistent, minimize_latency) ==
    /\ pc = "idle"
    /\ LET request == MakeCheckRequest(a) IN
       /\ op' = [name |-> "check", request |-> request,
                 full_consistent |-> full_consistent,
                 minimize_latency |-> minimize_latency]
       /\ wire' = <<CheckPermissionRequest(request, full_consistent, minimize_latency)>>
    /\ pc' = "await"
    /\ UNCHANGED <<resp, outcome, store, tasks, taskOf, lastWrite, frame>>

\* is_allowed of AuthzedGrpc: the keyword arguments go to check as they came
IsAllowedCall(a, full_consistent, minimize_latency) ==
    /\ pc = "idle"
    /\ LET request == MakeCheckRequest(a) IN
       /\ op' = [name |-> "is_allowed", request |-> request,
                 full_consistent |-> full_consistent,
                 minimize_latency |-> minimize_latency]
       /\ wire' = <<CheckPermissionRequest(request, full_consistent, minimize_latency)>>
    /\ pc' = "await"
    /\ UNCHANGED <<resp, outcome, store, tasks, taskOf, lastWrite, frame>>

\* check / is_allowed, from the response of CheckPermission on
CheckResume(permissionship) ==
    /\ pc = "await"
    /\ op.name \in {"check", "is_allowed"}
    /\ resp' = [kind |-> "CheckPermissionResponse", permissionship |-> permissionship]
    /\ outcome' = IF op.name = "check"
                  THEN Returns(CheckResult(resp'))
                  ELSE Returns(AccessIsAllowed(CheckResult(resp')))
    /\ pc' = "done"
    /\ UNCHANGED <<op, wire, store, tasks, taskOf, lastWrite, frame>>

-----------------------------------------------------------------------------
(* AuthzedGrpc.check_many / is_allowed_many *)

\* check_many: the consistency chosen from the two flags
CheckManyConsistency(full_consistent, minimize_latency) ==
    IF full_consistent THEN "fully_consistent"
    ELSE IF minimize_latency THEN "minimize_latency"
    ELSE "none"

BulkCheckPermissionRequest(requests, full_consistent, minimize_latency) ==
    [rpc |-> "BulkCheckPermission",
     consistency |-> CheckManyConsistency(full_consistent, minimize_latency),
     items |-> [i \in DOMAIN requests |-> CheckItem(requests[i])]]

\* {check: Access.forbid for check in requests}
RECURSIVE ForbidByDefault(_)
ForbidByDefault(requests) ==
    IF requests = <<>> THEN EmptyDict
    ELSE DictSet(ForbidByDefault(SubSeq(requests, 1, Len(requests) - 1)),
                 requests[Len(requests)], "forbid")

\* the CheckRequest rebuilt from an echoed item
EchoedCheckRequest(item) ==
    CheckRequest(item.subject.object_type, StrId(item.subject.object_id),
                 item.resource.object_type, StrId(item.resource.object_id),
                 item.permission)

\* the loop over response.pairs, applied to the dict built so far
RECURSIVE ApplyPairs(_, _)
ApplyPairs(d, pairs) ==
    IF pairs = <<>> THEN d
    ELSE LET check_result == Head(pairs)
             next == IF check_result.permissionship = HAS_PERMISSION
                     THEN DictSet(d, EchoedCheckRequest(check_result.request), "allow")
                     ELSE d
         IN ApplyPairs(next, Tail(pairs))

\* the loop over response.pairs without the forbid defaults
CheckManyResultNoDefault(requests, pairs) == ApplyPairs(EmptyDict, pairs)

\* check_many: the mapping made of the bulk response
CheckManyResult(requests, pairs) == ApplyPairs(ForbidByDefault(requests), pairs)

\* check_many without the early return on an empty list
CheckManyCallNoEarlyReturn(name, args, full_consistent, minimize_latency) ==
    /\ pc = "idle"
    /\ LET requests == [i \in DOMAIN args |-> MakeCheckRequest(args[i])] IN
       /\ op' = [name |-> name, requests |-> requests,
                 full_consistent |-> full_consistent,
                 minimize_latency |-> minimize_latency]
       /\ wire' = <<BulkCheckPermissionRequest(requests, full_consistent,
                                               minimize_latency)>>
       /\ outcome' = outcome
       /\ pc' = "await"
    /\ UNCHANGED <<resp, store, tasks, taskOf, lastWrite, frame>>

\* check_many / is_allowed_many, up to the await of BulkCheckPermission
CheckManyCall(name, args, full_consistent, minimize_latency) ==
    /\ pc = "idle"
    /\ LET requests == [i \in DOMAIN args |-> MakeCheckRequest(args[i])] IN
       /\ op' = [name |-> name, requests |-> requests,
                 full_consistent |-> full_consistent,
                 minimize_latency |-> minimize_latency]
       /\ IF requests = <<>>
          THEN /\ wire' = <<>>
               /\ outcome' = Returns(EmptyDict)
               /\ pc' = "done"
          ELSE /\ wire' = <<BulkCheckPermissionRequest(requests, full_consistent,
                                                       minimize_latency)>>
               /\ outcome' = outcome
               /\ pc' = "await"
    /\ UNCHANGED <<resp, store, tasks, taskOf, lastWrite, frame>>

\* {request: response.is_allowed() for request, response in results_list.items()}
IsAllowedMap(d) ==
    [i \in DOMAIN d |-> [key |-> d[i].key, value |-> AccessIsAllowed(d[i].value)]]

\* check_many / is_allowed_many, from the response of BulkCheckPermission on
CheckManyResume(pairs) ==
    /\ pc = "await"
    /\ op.name \in {"check_many", "is_allowed_many"}
    /\ resp' = [kind |-> "BulkCheckPermissionResponse", pairs |-> pairs]
    /\ outcome' = IF op.name = "check_many"
                  THEN Returns(CheckManyResult(op.requests, pairs))
                  ELSE Returns(IsAllowedMap(CheckManyResult(op.requests, pairs)))
    /\ pc' = "done"
    /\ UNCHANGED <<op, wire, store, tasks, taskOf, lastWrite, frame>>

-----------------------------------------------------------------------------
(* Relation updates: models.RelationUpdateRequest and the remote write *)

UpdateTypes == {"grant", "revoke", "create", "None"}

\* RelationUpdateRequest(...): no validator, the identifiers stay as supplied
RelationUpdateRequest(resource_type, resource_id, relation, subject_type, subject_id, subject_relation, update_type) ==
    [subject_type |-> subject_type,
     subject_id |-> subject_id,
     resource_type |-> resource_type,
     resource_id |-> resource_id,
     relation |-> relation,
     subject_relation |-> subject_relation,
     update_type |-> update_type]

\* Relationship(resource=..., relation=..., subject=SubjectReference(...))
Relationship(update) ==
    [resource |-> ObjectReference(update.resource_type, Str(update.resource_id)),
     relation |-> update.relation,
     subject |-> ObjectReference(update.subject_type, Str(update.subject_id)),
     optional_relation |-> update.subject_relation]

\* _relation_update_type mapping every type to a touch
RelationUpdateOperationTouchOnly(update_type) == "OPERATION_TOUCH"

\* _relation_update_type, for the two types it maps
RelationUpdateOperation(update_type) ==
    IF update_type = "grant" THEN "OPERATION_TOUCH" ELSE "OPERATION_DELETE"

\* the loop of update leaving out the elements that have no operation
RECURSIVE BuildUpdatesSkippingInvalid(_)
BuildUpdatesSkippingInvalid(updates) ==
    IF updates = <<>> THEN [error |-> "none", updates |-> <<>>]
    ELSE LET update == Head(updates)
             rest == BuildUpdatesSkippingInvalid(Tail(updates))
         IN IF update.update_type \notin {"grant", "revoke"} THEN rest
            ELSE [error |-> "none",
                  updates |-> <<[operation |-> RelationUpdateOperation(update.update_type),
                                 relationship |-> Relationship(update)]>>
                              \o rest.updates]

\* the loop of update with every type mapped to an operation, None and create too
RECURSIVE BuildUpdatesUnvalidated(_)
BuildUpdatesUnvalidated(updates) ==
    IF updates = <<>> THEN [error |-> "none", updates |-> <<>>]
    ELSE [error |-> "none",
          updates |-> <<[operation |-> RelationUpdateOperation(Head(updates).update_type),
                         relationship |-> Relationship(Head(updates))]>>
                      \o BuildUpdatesUnvalidated(Tail(updates)).updates]

\* the loop of update: the RelationshipUpdate list, or the exception of the first
\* element that has no operation
RECURSIVE BuildUpdates(_)
BuildUpdates(updates) ==
    IF updates = <<>> THEN [error |-> "none", updates |-> <<>>]
    ELSE LET update == Head(updates) IN
         IF update.update_type = "None"
         THEN [error |-> "ValueError", updates |-> <<>>]
         ELSE IF update.update_type \notin {"grant", "revoke"}
         THEN [error |-> "NotImplementedError", updates |-> <<>>]
         ELSE LET rest == BuildUpdates(Tail(updates)) IN
              IF rest.error # "none" THEN rest
              ELSE [error |-> "none",
                    updates |-> <<[operation |-> RelationUpdateOperation(update.update_type),
                                   relationship |-> Relationship(update)]>>
                                \o rest.updates]

\* update, up to the await of WriteRelationships (or to the exception of the loop)
UpdateCall(name, updates) ==
    /\ pc = "idle"
    /\ op' = [name |-> name, updates |-> updates]
    /\ LET built == BuildUpdates(updates) IN
       IF built.error # "none"
       THEN /\ wire' = <<>>
            /\ outcome' = Raises(built.error)
            /\ pc' = "done"
       ELSE /\ wire' = <<[rpc |-> "WriteRelationships", updates |-> built.updates]>>
            /\ outcome' = outcome
            /\ pc' = "await"
    /\ UNCHANGED <<resp, store, tasks, taskOf, lastWrite, frame>>

\* BaseAuthzed.grant
Grant(resource_type, resource_id, relation, subject_type, subject_id, subject_relation) ==
    UpdateCall("grant",
               <<RelationUpdateRequest(resource_type, resource_id, relation, subject_type,
                                       subject_id, subject_relation, "grant")>>)

\* BaseAuthzed.revoke
Revoke(resource_type, resource_id, relation, subject_type, subject_id, subject_relation) ==
    UpdateCall("revoke",
               <<RelationUpdateRequest(resource_type, resource_id, relation, subject_type,
                                       subject_id, subject_relation, "revoke")>>)

\* BaseAuthzed.grant_many
GrantMany(updates) == UpdateCall("grant_many", updates)

\* revoke_many turning every update into a revoke before it hands the list on
RevokeManyAsDeletes(updates) ==
    /\ pc = "idle"
    /\ op' = [name |-> "revoke_many", updates |-> updates]
    /\ LET built == BuildUpdates([i \in DOMAIN updates |->
                                    [updates[i] EXCEPT !.update_type = "revoke"]])
       IN IF built.error # "none"
          THEN /\ wire' = <<>>
               /\ outcome' = Raises(built.error)
               /\ pc' = "done"
          ELSE /\ wire' = <<[rpc |-> "WriteRelationships", updates |-> built.updates]>>
               /\ outcome' = outcome
               /\ pc' = "await"
    /\ UNCHANGED <<resp, store, tasks, taskOf, lastWrite, frame>>

\* BaseAuthzed.revoke_many
RevokeMany(updates) == UpdateCall("revoke_many", updates)

WriteOps == {"grant", "revoke", "grant_many", "revoke_many", "update"}

\* the remote store after a write: touch adds the tuple, delete removes it
RECURSIVE ApplyWrites(_, _)
ApplyWrites(tuples, updates) ==
    IF updates = <<>> THEN tuples
    ELSE ApplyWrites(IF Head(updates).operation = "OPERATION_TOUCH"
                     THEN tuples \cup {Head(updates).relationship}
                     ELSE tuples \ {Head(updates).relationship},
                     Tail(updates))

\* What WriteRelationships can hand back: the response message with its token,
\* the response message with written_at unset, or an object that is no response
\* message at all.
WriteResponses ==
    {[kind |-> "WriteRelationshipsResponse", written_at |-> "set", token |-> "zed1"],
     [kind |-> "WriteRelationshipsResponse", written_at |-> "unset", token |-> ""],
     [kind |-> "object", written_at |-> "unset", token |-> ""]}

\* the response carries a write token
CarriesToken(response) == response.written_at = "set"

\* response.written_at.token: a response message reads an unset field as its empty
\* default, any other object has no such attribute
ReadsWrittenAtToken(response) == response.kind = "WriteRelationshipsResponse"

\* the try/except of update
UpdateOutcome(response) ==
    IF ReadsWrittenAtToken(response) THEN Returns("None") ELSE Raises("RuntimeError")

\* History of the single writes: a grant that returned is remembered with its
\* tuple, and so is a revoke of the tuple of the remembered grant; any other
\* write forgets.
LastWriteAfter(name, updates, result) ==
    IF result.kind # "return" THEN NoWrite
    ELSE IF name = "grant"
    THEN [kind |-> "grant", tuple |-> updates[1].relationship]
    ELSE IF /\ name = "revoke"
            /\ lastWrite.kind = "grant"
            /\ lastWrite.tuple = updates[1].relationship
    THEN [kind |-> "revoke", tuple |-> updates[1].relationship]
    ELSE NoWrite

\* update, from the response of WriteRelationships on
UpdateResume(response) ==
    /\ pc = "await"
    /\ op.name \in WriteOps
    /\ store' = ApplyWrites(store, wire[1].updates)
    /\ resp' = response
    /\ outcome' = UpdateOutcome(response)
    /\ lastWrite' = LastWriteAfter(op.name, wire[1].updates, outcome')
    /\ pc' = "done"
    /\ UNCHANGED <<op, wire, tasks, taskOf, frame>>

\* WriteRelationships fails in the transport, before or after the remote side
\* applied the write
UpdateTransportError(applied) ==
    /\ pc = "await"
    /\ op.name \in WriteOps
    /\ store' = IF applied THEN ApplyWrites(store, wire[1].updates) ELSE store
    /\ resp' = [kind |-> "error"]
    /\ outcome' = Raises("TransportError")
    /\ lastWrite' = NoWrite
    /\ pc' = "done"
    /\ UNCHANGED <<op, wire, tasks, taskOf, frame>>

-----------------------------------------------------------------------------
(* AuthzedGrpc.relations_generator / BaseAuthzed.relations *)

\* relations_generator, up to the first pull of ReadRelationships
RelationsCall(resource_type, resource_id, subject_type, subject_id, limit) ==
    /\ pc = "idle"
    /\ op' = [name |-> "relations", resource_type |-> resource_type,
              resource_id |-> resource_id, subject_type |-> subject_type,
              subject_id |-> subject_id, limit |-> limit]
    /\ wire' = <<[rpc |-> "ReadRelationships",
                  relationship_filter |->
                      [resource_type |-> resource_type,
                       optional_resource_id |-> Str(resource_id),
                       optional_relation |-> "",
                       optional_subject_filter |->
                           [subject_type |-> subject_type,
                            optional_subject_id |-> Str(subject_id)]],
                  optional_limit |-> limit,
                  optional_cursor |-> ""]>>
    /\ pc' = "await"
    /\ UNCHANGED <<resp, outcome, store, tasks, taskOf, lastWrite, frame>>

\* the tuples a relationship filter selects ("" is an unset optional field)
Selected(tuples, filter) ==
    {t \in tuples :
        /\ t.resource.object_type = filter.resource_type
        /\ filter.optional_resource_id \in {"", t.resource.object_id}
        /\ filter.optional_relation \in {"", t.relation}
        /\ filter.optional_subject_filter.subject_type \in {"", t.subject.object_type}
        /\ filter.optional_subject_filter.optional_subject_id \in {"", t.subject.object_id}}

\* the orders in which the remote side may stream a set of tuples
Streams(tuples) ==
    {f \in [1..Cardinality(tuples) -> tuples] :
        \A i, j \in 1..Cardinality(tuples) : f[i] = f[j] => i = j}

\* the first optional_limit items of a stream (0: no limit)
Limited(stream, optional_limit) ==
    IF optional_limit = 0 \/ optional_limit >= Len(stream) THEN stream
    ELSE SubSeq(stream, 1, optional_limit)

\* [relation async for relation in relations_generator(...)]
RelationsResume ==
    /\ pc = "await"
    /\ op.name = "relations"
    /\ \E stream \in Streams(Selected(store, wire[1].relationship_filter)) :
          /\ resp' = [kind |-> "stream",
                      items |-> Limited(stream, wire[1].optional_limit)]
          /\ outcome' = Returns([i \in DOMAIN resp'.items |-> resp'.items[i].relation])
    /\ pc' = "done"
    /\ UNCHANGED <<op, wire, store, tasks, taskOf, lastWrite, frame>>

-----------------------------------------------------------------------------
(* AuthzedGrpc.resources_many *)

\* models.ResourcesRequest: no validator, the identifier stays as supplied
ResourcesRequest(subject_type, subject_id, resource_type, permission) ==
    [subject_type |-> subject_type,
     subject_id |-> subject_id,
     resource_type |-> resource_type,
     permission |-> permission]

\* resources_generator: the LookupResourcesRequest of one sub-lookup
LookupResourcesRequest(request, limit) ==
    [rpc |-> "LookupResources",
     resource_object_type |-> request.resource_type,
     permission |-> request.permission,
     subject |-> ObjectReference(request.subject_type, Str(request.subject_id)),
     optional_limit |-> limit,
     optional_cursor |-> ""]

\* asyncio.create_task(self.resources(...)): a task that has not finished
CreateTask(request) == [request |-> request, status |-> "pending", value |-> <<>>]

\* the dict comprehension {request: task for request in requests}, over the
\* first n requests: a request that occurs again replaces the task of its key
RECURSIVE TaskDict(_, _)
TaskDict(requests, n) ==
    IF n = 0 THEN EmptyDict
    ELSE DictSet(TaskDict(requests, n - 1), requests[n], n)

\* the loop over tasks.items() that drops the unfinished tasks from the result
RECURSIVE CollectSkippingUnfinished(_, _, _)
CollectSkippingUnfinished(items, ts, result) ==
    IF items = <<>> THEN [tasks |-> ts, outcome |-> Returns(result)]
    ELSE LET request == Head(items).key
             task == ts[Head(items).value]
         IN IF task.status = "pending"
            THEN CollectSkippingUnfinished(Tail(items), ts, result)
            ELSE IF task.status = "cancelled"
            THEN [tasks |-> ts, outcome |-> Raises("CancelledError")]
            ELSE IF task.status = "exception"
            THEN CollectSkippingUnfinished(Tail(items), ts,
                                           DictSet(result, request, <<>>))
            ELSE CollectSkippingUnfinished(Tail(items), ts,
                                           DictSet(result, request, task.value))

\* The loop over tasks.items().  A task that is not done is cancelled and gives
\* the empty list; task.exception() of a task that ended cancelled raises
\* CancelledError out of the loop; a task that ended with an exception gives the
\* empty list; any other task gives its result.
RECURSIVE Collect(_, _, _)
Collect(items, ts, result) ==
    IF items = <<>> THEN [tasks |-> ts, outcome |-> Returns(result)]
    ELSE LET request == Head(items).key
             i == Head(items).value
             task == ts[i]
         IN IF task.status = "pending"
            THEN Collect(Tail(items), [ts EXCEPT ![i].status = "cancel_requested"],
                         DictSet(result, request, <<>>))
            ELSE IF task.status = "cancelled"
            THEN [tasks |-> ts, outcome |-> Raises("CancelledError")]
            ELSE IF task.status = "exception"
            THEN Collect(Tail(items), ts, DictSet(result, request, <<>>))
            ELSE Collect(Tail(items), ts, DictSet(result, request, task.value))

\* resources_many, up to the await of asyncio.wait: one task per element of the
\* list; the tasks start their lookups as soon as the caller is suspended
ResourcesManyCall(requests, limit) ==
    /\ pc = "idle"
    /\ op' = [name |-> "resources_many", requests |-> requests, limit |-> limit]
    /\ tasks' = [i \in DOMAIN requests |-> CreateTask(requests[i])]
    /\ taskOf' = TaskDict(requests, Len(requests))
    /\ wire' = [i \in DOMAIN requests |-> LookupResourcesRequest(requests[i], limit)]
    /\ IF taskOf' = EmptyDict
       THEN /\ outcome' = Returns(EmptyDict)
            /\ pc' = "done"
       ELSE /\ outcome' = outcome
            /\ pc' = "wait"
    /\ UNCHANGED <<resp, store, lastWrite, frame>>

\* a task is running: it was created, has not finished and was not cancelled
Running(i) ==
    /\ op.name = "resources_many"
    /\ pc \in {"wait", "done"}
    /\ i \in DOMAIN tasks
    /\ tasks[i].status = "pending"

\* the lookup of task i streams its last item: the task finishes with its list
TaskResult(i, ids) ==
    /\ Running(i)
    /\ op.limit = 0 \/ Len(ids) <= op.limit
    /\ tasks' = [tasks EXCEPT ![i] = [@ EXCEPT !.status = "result", !.value = ids]]
    /\ UNCHANGED <<pc, op, wire, resp, outcome, store, taskOf, lastWrite, frame>>

\* the lookup of task i fails in the transport: the task finishes with the error
TaskException(i) ==
    /\ Running(i)
    /\ tasks' = [tasks EXCEPT ![i].status = "exception"]
    /\ UNCHANGED <<pc, op, wire, resp, outcome, store, taskOf, lastWrite, frame>>

\* the remote call of task i is cancelled under it and raises CancelledError
\* into the task: the task ends cancelled
TaskCancelled(i) ==
    /\ Running(i)
    /\ tasks' = [tasks EXCEPT ![i].status = "cancelled"]
    /\ UNCHANGED <<pc, op, wire, resp, outcome, store, taskOf, lastWrite, frame>>

\* the tasks asyncio.wait was given: the values of the dict
Awaited == {taskOf[k].value : k \in DOMAIN taskOf}

\* asyncio.wait returns because every task it was given is done, and the rest
\* of resources_many runs without suspension
WaitCompleted ==
    /\ pc = "wait"
    /\ \A i \in Awaited : tasks[i].status # "pending"
    /\ LET collected == Collect(taskOf, tasks, EmptyDict) IN
       /\ tasks' = collected.tasks
       /\ outcome' = collected.outcome
    /\ pc' = "done"
    /\ UNCHANGED <<op, wire, resp, store, taskOf, lastWrite, frame>>

\* asyncio.wait returns because its timeout elapsed with a task still pending,
\* and the rest of resources_many runs without suspension
WaitTimeout ==
    /\ pc = "wait"
    /\ \E i \in Awaited : tasks[i].status = "pending"
    /\ LET collected == Collect(taskOf, tasks, EmptyDict) IN
       /\ tasks' = collected.tasks
       /\ outcome' = collected.outcome
    /\ pc' = "done"
    /\ UNCHANGED <<op, wire, resp, store, taskOf, lastWrite, frame>>

-----------------------------------------------------------------------------
(* AuthzedGrpc.subjects_generator / _parse_subjects / BaseAuthzed.subjects *)

\* A node of the expansion tree.  It is a message with a oneof of leaf and
\* intermediate: both attributes exist on every node, the one that is not set
\* reads as its empty default.
LeafNode(subjects) == [subjects |-> subjects, children |-> <<>>]
IntermediateNode(children) == [subjects |-> <<>>, children |-> children]

\* the list comprehension over root.leaf.subjects with no test of the type
RECURSIVE LeafSubjectIdsUnfiltered(_, _)
LeafSubjectIdsUnfiltered(subjects, subject_type) ==
    IF subjects = <<>> THEN <<>>
    ELSE <<Head(subjects).object_id>>
         \o LeafSubjectIdsUnfiltered(Tail(subjects), subject_type)

\* the list comprehension over root.leaf.subjects
RECURSIVE LeafSubjectIds(_, _)
LeafSubjectIds(subjects, subject_type) ==
    IF subjects = <<>> THEN <<>>
    ELSE (IF Head(subjects).object_type = subject_type
          THEN <<Head(subjects).object_id>>
          ELSE <<>>)
         \o LeafSubjectIds(Tail(subjects), subject_type)

\* _parse_subjects recursing into the children from the last to the first
RECURSIVE ParseSubjectsRightToLeft(_, _)
ParseSubjectsRightToLeft(root, subject_type) ==
    LeafSubjectIds(root.subjects, subject_type)
    \o Concat([i \in DOMAIN root.children |->
                  ParseSubjectsRightToLeft(root.children[Len(root.children) + 1 - i],
                                           subject_type)])

\* _parse_subjects
RECURSIVE ParseSubjects(_, _)
ParseSubjects(root, subject_type) ==
    LeafSubjectIds(root.subjects, subject_type)
    \o Concat([i \in DOMAIN root.children |->
                  ParseSubjects(root.children[i], subject_type)])

\* subjects_generator, up to the await of ExpandPermissionTree
SubjectsCall(resource_type, resource_id, permission, subject_type, full_consistent) ==
    /\ pc = "idle"
    /\ op' = [name |-> "subjects", resource_type |-> resource_type,
              resource_id |-> resource_id, permission |-> permission,
              subject_type |-> subject_type, full_consistent |-> full_consistent]
    /\ wire' = <<[rpc |-> "ExpandPermissionTree",
                  resource |-> ObjectReference(resource_type, Str(resource_id)),
                  permission |-> permission,
                  consistency |-> IF full_consistent THEN "fully_consistent"
                                  ELSE "none"]>>
    /\ pc' = "await"
    /\ UNCHANGED <<resp, outcome, store, tasks, taskOf, lastWrite, frame>>

\* subjects_generator, from the response of ExpandPermissionTree on, drained by
\* the list comprehension of subjects
SubjectsResume(tree_root) ==
    /\ pc = "await"
    /\ op.name = "subjects"
    /\ resp' = [kind |-> "ExpandPermissionTreeResponse", tree_root |-> tree_root]
    /\ outcome' = Returns(ParseSubjects(tree_root, op.subject_type))
    /\ pc' = "done"
    /\ UNCHANGED <<op, wire, store, tasks, taskOf, lastWrite, frame>>

\* the response is an object without a tree_root attribute: AttributeError,
\* turned into RuntimeError
SubjectsInvalidResponse ==
    /\ pc = "await"
    /\ op.name = "subjects"
    /\ resp' = [kind |-> "object"]
    /\ outcome' = Raises("RuntimeError")
    /\ pc' = "done"
    /\ UNCHANGED <<op, wire, store, tasks, taskOf, lastWrite, frame>>

-----------------------------------------------------------------------------
(* AuthzedGrpc.check_relation *)

\* check_relation with a filter that names no resource id
CheckRelationCallAnyResource(resource_type, resource_id, relation, subject_type, subject_id) ==
    /\ pc = "idle"
    /\ op' = [name |-> "check_relation", resource_type |-> resource_type,
              resource_id |-> resource_id, relation |-> relation,
              subject_type |-> subject_type, subject_id |-> subject_id]
    /\ wire' = <<[rpc |-> "ReadRelationships",
                  relationship_filter |->
                      [resource_type |-> resource_type,
                       optional_resource_id |-> "",
                       optional_relation |-> relation,
                       optional_subject_filter |->
                           [subject_type |-> subject_type,
                            optional_subject_id |-> Str(subject_id)]],
                  optional_limit |-> 0,
                  optional_cursor |-> ""]>>
    /\ pc' = "await"
    /\ UNCHANGED <<resp, outcome, store, tasks, taskOf, lastWrite, frame>>

\* check_relation, up to the first pull of ReadRelationships
CheckRelationCall(resource_type, resource_id, relation, subject_type, subject_id) ==
    /\ pc = "idle"
    /\ op' = [name |-> "check_relation", resource_type |-> resource_type,
              resource_id |-> resource_id, relation |-> relation,
              subject_type |-> subject_type, subject_id |-> subject_id]
    /\ wire' = <<[rpc |-> "ReadRelationships",
                  relationship_filter |->
                      [resource_type |-> resource_type,
                       optional_resource_id |-> Str(resource_id),
                       optional_relation |-> relation,
                       optional_subject_filter |->
                           [subject_type |-> subject_type,
                            optional_subject_id |-> Str(subject_id)]],
                  optional_limit |-> 0,
                  optional_cursor |-> ""]>>
    /\ pc' = "await"
    /\ UNCHANGED <<resp, outcome, store, tasks, taskOf, lastWrite, frame>>

\* the loop of check_relation: true at the first item with the relation asked for
CheckRelationResult(stream, relation) ==
    \E i \in DOMAIN stream : stream[i].relation = relation

\* check_relation, over the stream the remote side serves for the filter
CheckRelationResume ==
    /\ pc = "await"
    /\ op.name = "check_relation"
    /\ \E stream \in Streams(Selected(store, wire[1].relationship_filter)) :
          /\ resp' = [kind |-> "stream", items |-> stream]
          /\ outcome' = Returns(CheckRelationResult(stream, op.relation))
    /\ pc' = "done"
    /\ UNCHANGED <<op, wire, store, tasks, taskOf, lastWrite, frame>>

-----------------------------------------------------------------------------
(* AuthzedGrpc.resources_with_relations_generator and                        *)
(* subjects_with_relations_generator, drained by the list comprehensions of  *)
(* BaseAuthzed.resources_with_relations / subjects_with_relations            *)

\* an absent optional argument
None == [kind |-> "none", n |-> 0, s |-> ""]

\* the truth value Python gives an identifier in `if resource_id:`
Truthy(id) ==
    IF id.kind = "int" THEN id.n # 0
    ELSE IF id.kind = "str" THEN id.s # ""
    ELSE FALSE

\* the local variables of a generator that has read nothing yet
NewFrame == [read |-> <<>>, groups |-> EmptyDict, yielded |-> <<>>]

\* groups[key] = {relation}: the grouping that forgets what the key had before
AddToGroupReplacing(groups, key, relation) == DictSet(groups, key, {relation})

\* defaultdict(set): groups[key].add(relation)
AddToGroup(groups, key, relation) ==
    DictSet(groups, key,
            (IF key \in Keys(groups) THEN DictValue(groups, key) ELSE {}) \cup {relation})

\* the items the remote side has still to stream for the request on the wire
Pending ==
    IF wire[1].optional_limit # 0 /\ Len(frame.read) >= wire[1].optional_limit
    THEN {}
    ELSE Selected(store, wire[1].relationship_filter) \ Range(frame.read)

\* resources_with_relations_generator, up to the first pull of ReadRelationships
ResourcesWithRelationsCall(resource_type, subject_type, subject_id, relation, limit) ==
    /\ pc = "idle"
    /\ op' = [name |-> "resources_with_relations", resource_type |-> resource_type,
              subject_type |-> subject_type, subject_id |-> subject_id,
              relation |-> relation, limit |-> limit]
    /\ wire' = <<[rpc |-> "ReadRelationships",
                  relationship_filter |->
                      [resource_type |-> resource_type,
                       optional_resource_id |-> "",
                       optional_relation |-> relation,
                       optional_subject_filter |->
                           [subject_type |-> subject_type,
                            optional_subject_id |-> Str(subject_id)]],
                  optional_limit |-> limit,
                  optional_cursor |-> ""]>>
    /\ frame' = NewFrame
    /\ pc' = "stream"
    /\ UNCHANGED <<resp, outcome, store, tasks, taskOf, lastWrite>>

\* one turn of the async for that also hands the group of the item out at once
ResourcesWithRelationsItemYielding ==
    /\ pc = "stream"
    /\ op.name = "resources_with_relations"
    /\ \E item \in Pending :
          LET groups == AddToGroup(frame.groups, item.resource.object_id, item.relation)
          IN frame' = [read |-> Append(frame.read, item),
                       groups |-> groups,
                       yielded |-> Append(frame.yielded,
                                          [resource_id |-> item.resource.object_id,
                                           relations |-> <<item.relation>>])]
    /\ UNCHANGED <<pc, op, wire, resp, outcome, store, tasks, taskOf, lastWrite>>

\* one turn of the async for of resources_with_relations_generator
ResourcesWithRelationsItem ==
    /\ pc = "stream"
    /\ op.name = "resources_with_relations"
    /\ \E item \in Pending :
          frame' = [frame EXCEPT
                       !.read = Append(@, item),
                       !.groups = AddToGroup(@, item.resource.object_id, item.relation)]
    /\ UNCHANGED <<pc, op, wire, resp, outcome, store, tasks, taskOf, lastWrite>>

\* one turn of the for loop over resources_with_relations.items(): the next
\* group is yielded, its set of relations as a list in some order
ResourcesWithRelationsYield ==
    /\ pc = "yield"
    /\ op.name = "resources_with_relations"
    /\ Len(frame.yielded) < Len(frame.groups)
    /\ LET group == frame.groups[Len(frame.yielded) + 1] IN
       \E relations \in Streams(group.value) :
          frame' = [frame EXCEPT
                       !.yielded = Append(@, [resource_id |-> group.key,
                                              relations |-> relations])]
    /\ UNCHANGED <<pc, op, wire, resp, outcome, store, tasks, taskOf, lastWrite>>

\* subjects_with_relations_generator, up to the first pull of ReadRelationships
SubjectsWithRelationsCall(resource_type, resource_id, subject_type, limit) ==
    /\ pc = "idle"
    /\ op' = [name |-> "subjects_with_relations", resource_type |-> resource_type,
              resource_id |-> resource_id, subject_type |-> subject_type,
              limit |-> limit]
    /\ wire' = <<[rpc |-> "ReadRelationships",
                  relationship_filter |->
                      [resource_type |-> resource_type,
                       optional_resource_id |->
                           IF Truthy(resource_id) THEN Str(resource_id) ELSE "",
                       optional_relation |-> "",
                       optional_subject_filter |->
                           [subject_type |-> subject_type,
                            optional_subject_id |-> ""]],
                  optional_limit |-> limit,
                  optional_cursor |-> ""]>>
    /\ frame' = NewFrame
    /\ pc' = "stream"
    /\ UNCHANGED <<resp, outcome, store, tasks, taskOf, lastWrite>>

\* one turn of the async for of subjects_with_relations_generator
SubjectsWithRelationsItem ==
    /\ pc = "stream"
    /\ op.name = "subjects_with_relations"
    /\ \E item \in Pending :
          frame' = [frame EXCEPT
                       !.read = Append(@, item),
                       !.groups = AddToGroup(@, <<item.subject.object_type,
                                                  item.subject.object_id>>,
                                             item.relation)]
    /\ UNCHANGED <<pc, op, wire, resp, outcome, store, tasks, taskOf, lastWrite>>

\* one turn of the for loop over subject_with_relations.items()
SubjectsWithRelationsYield ==
    /\ pc = "yield"
    /\ op.name = "subjects_with_relations"
    /\ Len(frame.yielded) < Len(frame.groups)
    /\ LET group == frame.groups[Len(frame.yielded) + 1] IN
       \E relations \in Streams(group.value) :
          frame' = [frame EXCEPT
                       !.yielded = Append(@, [subject_type |-> group.key[1],
                                              subject_id |-> group.key[2],
                                              relations |-> relations])]
    /\ UNCHANGED <<pc, op, wire, resp, outcome, store, tasks, taskOf, lastWrite>>

\* the stream has no further item: the async for is over
StreamEnd ==
    /\ pc = "stream"
    /\ Pending = {}
    /\ resp' = [kind |-> "stream", items |-> frame.read]
    /\ pc' = "yield"
    /\ UNCHANGED <<op, wire, outcome, store, tasks, taskOf, lastWrite, frame>>

\* the stream fails in the transport, before its first item or after any item
StreamError ==
    /\ pc = "stream"
    /\ resp' = [kind |-> "error"]
    /\ outcome' = Raises("TransportError")
    /\ pc' = "done"
    /\ UNCHANGED <<op, wire, store, tasks, taskOf, lastWrite, frame>>

\* the generator is exhausted: the list comprehension returns what it collected
GeneratorEnd ==
    /\ pc = "yield"
    /\ Len(frame.yielded) = Len(frame.groups)
    /\ outcome' = Returns(frame.yielded)
    /\ pc' = "done"
    /\ UNCHANGED <<op, wire, resp, store, tasks, taskOf, lastWrite, frame>>

-----------------------------------------------------------------------------
(* What every operation shares *)

\* the remote call in progress fails in the transport and is issued a second time
TransportErrorRetried ==
    /\ pc = "await"
    /\ op.name \notin WriteOps
    /\ Len(wire) < 2
    /\ wire' = Append(wire, wire[1])
    /\ resp' = [kind |-> "error"]
    /\ UNCHANGED <<pc, op, outcome, store, tasks, taskOf, lastWrite, frame>>

\* the remote call in progress fails in the transport: the error reaches the caller
TransportError ==
    /\ pc = "await"
    /\ op.name \notin WriteOps
    /\ resp' = [kind |-> "error"]
    /\ outcome' = Raises("TransportError")
    /\ pc' = "done"
    /\ UNCHANGED <<op, wire, store, tasks, taskOf, lastWrite, frame>>

\* the caller takes the outcome; the value types of the call are discarded
Return ==
    /\ pc = "done"
    /\ pc' = "idle"
    /\ op' = NoOp
    /\ wire' = <<>>
    /\ resp' = NoResp
    /\ outcome' = NoOutcome
    /\ tasks' = <<>>
    /\ taskOf' = EmptyDict
    /\ frame' = NoFrame
    /\ UNCHANGED <<store, lastWrite>>

Init ==
    /\ pc = "idle"
    /\ op = NoOp
    /\ wire = <<>>
    /\ resp = NoResp
    /\ outcome = NoOutcome
    /\ store = {}
    /\ tasks = <<>>
    /\ taskOf = EmptyDict
    /\ lastWrite = NoWrite
    /\ frame = NoFrame

-----------------------------------------------------------------------------
(* The permission checks *)

NextCheck ==
    \/ pc = "idle" /\ \E a \in CheckArgs, fc \in BOOLEAN, ml \in BOOLEAN : CheckCall(a, fc, ml)
    \/ pc = "idle" /\ \E a \in CheckArgs, fc \in BOOLEAN, ml \in BOOLEAN : IsAllowedCall(a, fc, ml)
    \/ pc = "await" /\ \E p \in Permissionships : CheckResume(p)
    \/ pc = "idle" /\ \E args \in SeqsUpTo(CheckArgs, MaxRequests), fc \in BOOLEAN, ml \in BOOLEAN :
                         CheckManyCall("check_many", args, fc, ml)
    \/ pc = "idle" /\ \E args \in SeqsUpTo(CheckArgs, MaxRequests), fc \in BOOLEAN, ml \in BOOLEAN :
                         CheckManyCall("is_allowed_many", args, fc, ml)
    \/ pc = "await" /\ \E pairs \in SeqsUpTo(BulkPairs, MaxPairs) : CheckManyResume(pairs)
    \/ TransportError
    \/ Return

SpecCheck == Init /\ [][NextCheck]_vars

-----------------------------------------------------------------------------
(* Properties of the permission checks *)

CheckManyReturned ==
    /\ pc = "done"
    /\ op.name = "check_many"
    /\ outcome.kind = "return"

\* the bulk response reports has-permission for exactly the tuple of request r
ReportsAllow(pairs, r) ==
    \E k \in DOMAIN pairs :
        /\ pairs[k].permissionship = HAS_PERMISSION
        /\ pairs[k].request = CheckItem(r)

\* C1: after check_many on a non-empty list, whatever the bulk response holds,
\* every input request is the key of exactly one entry of the returned mapping,
\* with the value allow if the response reports has-permission for exactly that
\* tuple and forbid otherwise.
C1_CheckManyCoversInputs ==
    (CheckManyReturned /\ op.requests # <<>>) =>
        \A i \in DOMAIN op.requests :
            LET r == op.requests[i] IN
            /\ Cardinality({j \in DOMAIN outcome.value : outcome.value[j].key = r}) = 1
            /\ DictValue(outcome.value, r) =
                   IF ReportsAllow(resp.pairs, r) THEN "allow" ELSE "forbid"

\* two different requests were checked, the response echoed only one of them,
\* as has-permission, and the other one came back forbid
C1_Witness ==
    /\ CheckManyReturned
    /\ Len(op.requests) = 2
    /\ op.requests[1] # op.requests[2]
    /\ Len(resp.pairs) = 1
    /\ ReportsAllow(resp.pairs, op.requests[1])
    /\ DictValue(outcome.value, op.requests[1]) = "allow"
    /\ DictValue(outcome.value, op.requests[2]) = "forbid"

\* C2: check_many on the empty list returns the empty mapping and has issued no
\* remote call, whatever the two consistency flags are.
C2_EmptyCheckManyIsLocal ==
    (pc = "done" /\ op.name = "check_many" /\ op.requests = <<>>) =>
        /\ outcome = Returns(EmptyDict)
        /\ wire = <<>>

\* check_many([]) has returned, called with both consistency flags set
C2_Witness ==
    /\ pc = "done"
    /\ op.name = "check_many"
    /\ op.requests = <<>>
    /\ op.full_consistent
    /\ op.minimize_latency
    /\ outcome.kind = "return"

CheckOps == {"check", "check_many", "is_allowed", "is_allowed_many"}

\* C6: when check, check_many, is_allowed or is_allowed_many is asked for both
\* full consistency and minimize latency, the consistency sent to the remote
\* service is minimize-latency; when it is asked for neither, none is sent.
C6_MinimizeLatencyTakesPrecedence ==
    (op.name \in CheckOps /\ wire # <<>>) =>
        /\ (op.full_consistent /\ op.minimize_latency)
               => wire[1].consistency = "minimize_latency"
        /\ (~op.full_consistent /\ ~op.minimize_latency)
               => wire[1].consistency = "none"

CheckAnswered ==
    /\ pc = "done"
    /\ op.name \in {"check", "is_allowed"}
    /\ outcome.kind = "return"

\* the store holds no relationship between the resource and the subject of a request
NoMatchingRelationship(tuples, request) ==
    ~\E t \in tuples :
        /\ t.resource = CheckItem(request).resource
        /\ t.subject = CheckItem(request).subject

\* C11: when the store holds no relationship matching the request and the remote
\* service reports, as it does for such a store, no permission, check returns
\* Access.forbid and is_allowed returns false; and whatever the service reports,
\* check returns Access.allow exactly when it reports has-permission and
\* is_allowed returns true exactly in that same case.
C11_NoRelationshipIsForbid ==
    CheckAnswered =>
        /\ (/\ NoMatchingRelationship(store, op.request)
            /\ resp.permissionship = "PERMISSIONSHIP_NO_PERMISSION") =>
               /\ op.name = "check" => outcome.value = "forbid"
               /\ op.name = "is_allowed" => outcome.value = FALSE
        /\ op.name = "check" =>
               (outcome.value = "allow" <=> resp.permissionship = HAS_PERMISSION)
        /\ op.name = "is_allowed" =>
               (outcome.value = TRUE <=> resp.permissionship = HAS_PERMISSION)

\* is_allowed was answered no-permission against a store without a matching
\* relationship and returned false
C11_Witness ==
    /\ CheckAnswered
    /\ op.name = "is_allowed"
    /\ NoMatchingRelationship(store, op.request)
    /\ resp.permissionship = "PERMISSIONSHIP_NO_PERMISSION"
    /\ outcome.value = FALSE

\* the caller's arguments name the same subject, resource and permission as the
\* request, their identifiers compared in string form
SameIdentifiers(a, request) ==
    /\ a.subject_type = request.subject_type
    /\ Str(a.subject_id) = Str(request.subject_id)
    /\ a.resource_type = request.resource_type
    /\ Str(a.resource_id) = Str(request.resource_id)
    /\ a.permission = request.permission

\* C12: whichever form (integer or string) the caller gave the identifiers in,
\* a CheckRequest built from arguments with the same string forms equals the
\* request in progress, so both are the same dictionary key, and it produces the
\* same remote request in check and in check_many, whose object ids are the
\* string forms of the identifiers.
C12_IdentifiersNormalised ==
    /\ (op.name \in {"check", "is_allowed"} /\ wire # <<>>) =>
           \A a \in CheckArgs :
               SameIdentifiers(a, op.request) =>
                   /\ MakeCheckRequest(a) = op.request
                   /\ CheckPermissionRequest(MakeCheckRequest(a), op.full_consistent,
                                             op.minimize_latency) = wire[1]
                   /\ wire[1].resource.object_id = Str(a.resource_id)
                   /\ wire[1].subject.object_id = Str(a.subject_id)
    /\ (op.name \in {"check_many", "is_allowed_many"} /\ wire # <<>>) =>
           \A i \in DOMAIN op.requests : \A a \in CheckArgs :
               SameIdentifiers(a, op.requests[i]) =>
                   /\ MakeCheckRequest(a) = op.requests[i]
                   /\ CheckItem(MakeCheckRequest(a)) = wire[1].items[i]
                   /\ wire[1].items[i].resource.object_id = Str(a.resource_id)
                   /\ wire[1].items[i].subject.object_id = Str(a.subject_id)

\* check_many was given a request built with integer identifiers followed by one
\* built with their string forms: one key in the mapping, two equal items sent
C12_Witness ==
    /\ CheckManyReturned
    /\ \E a, b \in CheckArgs :
           /\ a.resource_id.kind = "int" /\ a.subject_id.kind = "int"
           /\ b.resource_id.kind = "str" /\ b.subject_id.kind = "str"
           /\ op.requests = <<MakeCheckRequest(a), MakeCheckRequest(b)>>
    /\ Len(outcome.value) = 1
    /\ wire[1].items[1] = wire[1].items[2]

\* C18: check never returns Access.undefined: it returns allow when the remote
\* side reports has-permission and forbid for no-permission, conditional and
\* unspecified; and every value of the mapping returned by check_many is allow
\* or forbid, allow exactly when the bulk response reports has-permission for
\* the tuple of that key.
C18_NeverUndefined ==
    /\ (CheckAnswered /\ op.name = "check") =>
           /\ outcome.value # "undefined"
           /\ outcome.value = IF resp.permissionship = HAS_PERMISSION
                              THEN "allow" ELSE "forbid"
    /\ CheckManyReturned =>
           \A k \in DOMAIN outcome.value :
               /\ outcome.value[k].value \in {"allow", "forbid"}
               /\ outcome.value[k].value = "allow"
                      <=> ReportsAllow(resp.pairs, outcome.value[k].key)

\* check was answered with the unspecified permissionship and returned forbid
C18_Witness ==
    /\ CheckAnswered
    /\ op.name = "check"
    /\ resp.permissionship = "PERMISSIONSHIP_UNSPECIFIED"
    /\ outcome.value = "forbid"

\* C21: the mapping returned by check_many has no key outside the input: for
\* every input list and every bulk response, the key set of the result equals
\* the set of distinct input requests, also when the response holds a
\* has-permission pair for a tuple that was not requested.
C21_KeysAreInputs ==
    CheckManyReturned => Keys(outcome.value) = Range(op.requests)

-----------------------------------------------------------------------------
(* The relation writes and reads *)

RawResourceIds == {IntId(1), StrId("1")}
RawSubjectIds == {IntId(1), StrId("2")}
Relations == {"owner", "viewer"}
SubjectRelations == {"", "member"}

\* the elements of the lists given to grant_many / revoke_many / update
UpdateArgs ==
    {RelationUpdateRequest("doc", IntId(1), "owner", "user", IntId(1), "", t) :
        t \in UpdateTypes}

NextWrite ==
    \/ pc = "idle" /\ \E r \in RawResourceIds, rel \in Relations, s \in RawSubjectIds,
                         sr \in SubjectRelations : Grant("doc", r, rel, "user", s, sr)
    \/ pc = "idle" /\ \E r \in RawResourceIds, rel \in Relations, s \in RawSubjectIds,
                         sr \in SubjectRelations : Revoke("doc", r, rel, "user", s, sr)
    \/ pc = "idle" /\ \E updates \in SeqsUpTo(UpdateArgs, MaxUpdates) : GrantMany(updates)
    \/ pc = "idle" /\ \E updates \in SeqsUpTo(UpdateArgs, MaxUpdates) : RevokeMany(updates)
    \/ pc = "idle" /\ \E updates \in SeqsUpTo(UpdateArgs, MaxUpdates) :
                          UpdateCall("update", updates)
    \/ pc = "await" /\ \E response \in WriteResponses : UpdateResume(response)
    \/ pc = "await" /\ \E applied \in BOOLEAN : UpdateTransportError(applied)
    \/ pc = "idle" /\ \E r \in RawResourceIds, s \in RawSubjectIds, limit \in {0, 1} :
                         RelationsCall("doc", r, "user", s, limit)
    \/ RelationsResume
    \/ TransportError
    \/ Return

SpecWrite == Init /\ [][NextWrite]_vars

-----------------------------------------------------------------------------
(* Properties of the relation writes and reads *)

HasNullUpdateType(updates) ==
    \E i \in DOMAIN updates : updates[i].update_type = "None"

\* the first element without a grant or revoke type is one with a null type
NullComesFirst(updates) ==
    \E i \in DOMAIN updates :
        /\ updates[i].update_type = "None"
        /\ \A j \in 1..(i - 1) : updates[j].update_type \in {"grant", "revoke"}

\* C7: update, grant_many or revoke_many given a list that contains an update
\* with a null update_type raises before any remote call: the invocation is over
\* with an exception (ValueError when the null one is the first element the loop
\* rejects) and has issued no remote write.
C7_NullUpdateTypeRejectedLocally ==
    (op.name \in WriteOps /\ HasNullUpdateType(op.updates)) =>
        /\ pc = "done"
        /\ outcome.kind = "raise"
        /\ outcome.error \in {"ValueError", "NotImplementedError"}
        /\ NullComesFirst(op.updates) => outcome.error = "ValueError"
        /\ wire = <<>>

\* grant_many was given a valid grant followed by an update with a null type,
\* against a store that already holds tuples: ValueError, nothing sent
C7_Witness ==
    /\ pc = "done"
    /\ op.name = "grant_many"
    /\ Len(op.updates) = 2
    /\ op.updates[1].update_type = "grant"
    /\ op.updates[2].update_type = "None"
    /\ outcome = Raises("ValueError")
    /\ wire = <<>>
    /\ store # {}

\* C8: grant, revoke, grant_many and revoke_many raise a runtime error (not a
\* transport error) whenever the remote write succeeded but its response carries
\* no write token, and return normally only when a token is present.
C8_MissingTokenRaises ==
    (/\ pc = "done"
     /\ op.name \in {"grant", "revoke", "grant_many", "revoke_many"}
     /\ resp.kind \notin {"none", "error"}) =>
        IF CarriesToken(resp)
        THEN outcome.kind = "return"
        ELSE outcome = Raises("RuntimeError")

\* the tuple lies between the resource and the subject of a relations call
Between(tuple, call) ==
    /\ tuple.resource = ObjectReference(call.resource_type, Str(call.resource_id))
    /\ tuple.subject = ObjectReference(call.subject_type, Str(call.subject_id))

\* relations(resource, subject), without limit, has returned, and the last write
\* to complete was a single grant or revoke between that resource and subject
RelationsAfterWrite ==
    /\ pc = "done"
    /\ op.name = "relations"
    /\ op.limit = 0
    /\ outcome.kind = "return"
    /\ lastWrite.kind # "none"
    /\ Between(lastWrite.tuple, op)

\* C10 as stated: after a grant completed, relations(resource, subject) includes
\* the relation; after a subsequent revoke of the same tuple completed, the same
\* relations call does not include it.
C10_RoundTripAsStated ==
    RelationsAfterWrite =>
        /\ lastWrite.kind = "grant" => lastWrite.tuple.relation \in Range(outcome.value)
        /\ lastWrite.kind = "revoke" => lastWrite.tuple.relation \notin Range(outcome.value)

\* the store holds another tuple with the same relation between the same
\* resource and subject: one whose subject carries another subject relation
HeldByAnotherTuple(tuple) ==
    \E t \in store :
        /\ t # tuple
        /\ t.resource = tuple.resource
        /\ t.subject = tuple.subject
        /\ t.relation = tuple.relation

\* C10, amended: after a grant completed, relations(resource, subject) includes
\* the relation; after a subsequent revoke of the same tuple completed, the same
\* relations call does not include it unless the store holds another tuple with
\* that relation between the same resource and subject (one written with a
\* different subject_relation).
C10_RoundTrip ==
    RelationsAfterWrite =>
        /\ lastWrite.kind = "grant" => lastWrite.tuple.relation \in Range(outcome.value)
        /\ (lastWrite.kind = "revoke" /\ ~HeldByAnotherTuple(lastWrite.tuple))
               => lastWrite.tuple.relation \notin Range(outcome.value)

\* a tuple was granted and then revoked, and the relations call that followed
\* returned the other relation the pair still holds, without the revoked one
C10_Witness ==
    /\ RelationsAfterWrite
    /\ lastWrite.kind = "revoke"
    /\ ~HeldByAnotherTuple(lastWrite.tuple)
    /\ outcome.value # <<>>
    /\ lastWrite.tuple.relation \notin Range(outcome.value)

\* the update has a type that update maps to an operation
HasOperation(update) == update.update_type \in {"grant", "revoke"}

\* the first element of the list that has no operation
FirstInvalid(updates) ==
    CHOOSE i \in DOMAIN updates :
        /\ ~HasOperation(updates[i])
        /\ \A j \in 1..(i - 1) : HasOperation(updates[j])

\* the remote write carries the updates of the list, one for one in input order,
\* each with the operation of its own type
CarriesInOrder(write, updates) ==
    /\ write.rpc = "WriteRelationships"
    /\ Len(write.updates) = Len(updates)
    /\ \A i \in DOMAIN updates :
          /\ write.updates[i].relationship = Relationship(updates[i])
          /\ write.updates[i].operation =
                 IF updates[i].update_type = "grant" THEN "OPERATION_TOUCH"
                 ELSE "OPERATION_DELETE"

\* C19: a list passed to update (directly or through grant_many / revoke_many)
\* is validated as a whole before anything is sent: if some element has a null
\* update_type or the type create, the call is over with the exception of the
\* first such element (ValueError for null, NotImplementedError for create) and
\* no remote write was issued, the valid elements before it included; if every
\* element is valid, exactly one remote write is issued and it carries all the
\* updates in input order.
C19_BatchValidatedAsAWhole ==
    (op.name \in WriteOps) =>
        IF \E i \in DOMAIN op.updates : ~HasOperation(op.updates[i])
        THEN /\ pc = "done"
             /\ wire = <<>>
             /\ outcome =
                    Raises(IF op.updates[FirstInvalid(op.updates)].update_type = "None"
                           THEN "ValueError" ELSE "NotImplementedError")
        ELSE /\ Len(wire) = 1
             /\ CarriesInOrder(wire[1], op.updates)

\* update was given a valid grant followed by an update of type create, against
\* a store that holds tuples: NotImplementedError, nothing sent
C19_Witness ==
    /\ pc = "done"
    /\ op.name = "update"
    /\ Len(op.updates) = 2
    /\ op.updates[1].update_type = "grant"
    /\ op.updates[2].update_type = "create"
    /\ outcome = Raises("NotImplementedError")
    /\ wire = <<>>
    /\ store # {}

\* C20: grant_many and revoke_many do the same with a list of updates: what
\* either of them sends is determined by the list alone, a touch for every
\* update tagged grant and a delete for every update tagged revoke, whichever of
\* the two methods was called; a list that update rejects is rejected by both
\* without a remote write.
C20_GrantManyIsRevokeMany ==
    (op.name \in {"grant_many", "revoke_many"}) =>
        IF \A i \in DOMAIN op.updates : HasOperation(op.updates[i])
        THEN wire = <<[rpc |-> "WriteRelationships",
                       updates |-> [i \in DOMAIN op.updates |->
                           [operation |-> IF op.updates[i].update_type = "grant"
                                          THEN "OPERATION_TOUCH"
                                          ELSE "OPERATION_DELETE",
                            relationship |-> Relationship(op.updates[i])]]]>>
        ELSE wire = <<>> /\ outcome.kind = "raise"

\* revoke_many was given a revoke followed by an update tagged grant, sent a
\* delete and a touch, and the store holds the granted tuple afterwards
C20_Witness ==
    /\ pc = "done"
    /\ op.name = "revoke_many"
    /\ Len(op.updates) = 2
    /\ op.updates[1].update_type = "revoke"
    /\ op.updates[2].update_type = "grant"
    /\ wire[1].updates[1].operation = "OPERATION_DELETE"
    /\ wire[1].updates[2].operation = "OPERATION_TOUCH"
    /\ outcome.kind = "return"
    /\ Relationship(op.updates[2]) \in store

-----------------------------------------------------------------------------
(* The single-call operations side by side: check, check_many and update *)

NextSingle ==
    \/ pc = "idle" /\ \E a \in CheckArgs, fc \in BOOLEAN, ml \in BOOLEAN : CheckCall(a, fc, ml)
    \/ pc = "await" /\ \E p \in Permissionships : CheckResume(p)
    \/ pc = "idle" /\ \E args \in SeqsUpTo(CheckArgs, MaxRequests), fc \in BOOLEAN, ml \in BOOLEAN :
                         CheckManyCall("check_many", args, fc, ml)
    \/ pc = "await" /\ \E pairs \in SeqsUpTo(BulkPairs, 1) : CheckManyResume(pairs)
    \/ pc = "idle" /\ \E updates \in SeqsUpTo(UpdateArgs, MaxUpdates) :
                          UpdateCall("update", updates)
    \/ pc = "await" /\ \E response \in WriteResponses : UpdateResume(response)
    \/ pc = "await" /\ \E applied \in BOOLEAN : UpdateTransportError(applied)
    \/ TransportError
    \/ Return

SpecSingle == Init /\ [][NextSingle]_vars

\* an invocation of check, check_many or update is in progress or just over
SingleCallInvoked ==
    /\ op.name \in {"check", "check_many", "update"}
    /\ pc \in {"await", "done"}

\* C17 as stated: one invocation of check, of check_many on a non-empty list or
\* of update issues exactly one remote call, and if that call raises a transport
\* error the error reaches the caller with no second remote call made.
C17_OneRemoteCallAsStated ==
    (SingleCallInvoked /\ (op.name = "check_many" => op.requests # <<>>)) =>
        /\ Len(wire) = 1
        /\ resp.kind = "error" => (pc = "done" /\ outcome = Raises("TransportError"))

\* C17, amended: one invocation of check, of check_many on a non-empty list or
\* of update on a list that passes its local validation issues exactly one
\* remote call, and no invocation issues more than one (an update that fails
\* validation issues none); if the call raises a transport error the error
\* reaches the caller with no second remote call made.
C17_OneRemoteCall ==
    SingleCallInvoked =>
        /\ Len(wire) <= 1
        /\ (/\ op.name = "check_many" => op.requests # <<>>
            /\ op.name = "update" => \A i \in DOMAIN op.updates : HasOperation(op.updates[i]))
               => Len(wire) = 1
        /\ resp.kind = "error" =>
               /\ pc = "done"
               /\ outcome = Raises("TransportError")
               /\ Len(wire) = 1

\* update sent a valid list of two, the write failed in the transport, and the
\* caller got the transport error after that one remote call
C17_Witness ==
    /\ pc = "done"
    /\ op.name = "update"
    /\ Len(op.updates) = 2
    /\ resp.kind = "error"
    /\ outcome = Raises("TransportError")
    /\ Len(wire) = 1

-----------------------------------------------------------------------------
(* The batch lookup *)

ResourcesArgs ==
    {ResourcesRequest("user", IntId(1), "doc", p) : p \in {"view", "edit", "share"}}

ResourceLists == {<<>>, <<"1">>, <<"2", "1">>}

NextResources ==
    \/ pc = "idle" /\ \E requests \in SeqsUpTo(ResourcesArgs, MaxRequests), limit \in {0, 1} :
                         ResourcesManyCall(requests, limit)
    \/ \E i \in DOMAIN tasks, ids \in ResourceLists : TaskResult(i, ids)
    \/ \E i \in DOMAIN tasks : TaskException(i)
    \/ \E i \in DOMAIN tasks : TaskCancelled(i)
    \/ WaitCompleted
    \/ WaitTimeout
    \/ Return

SpecResources == Init /\ [][NextResources]_vars

-----------------------------------------------------------------------------
(* Properties of the batch lookup *)

ResourcesManyOver ==
    /\ pc = "done"
    /\ op.name = "resources_many"

\* the sub-lookup of task i never completed: it was still running when the wait
\* ended (and was cancelled by the call) or is still running now
Stalled(i) == tasks[i].status \in {"pending", "cancel_requested"}

\* exactly one sub-lookup never completed and every other one produced its list
OneStalledOthersSucceeded ==
    /\ Cardinality({i \in DOMAIN tasks : Stalled(i)}) = 1
    /\ \A i \in DOMAIN tasks : Stalled(i) \/ tasks[i].status = "result"

\* C3 as stated: resources_many with N requests of which one sub-lookup never
\* completes and the others succeed returns a mapping of size N, the stalled
\* request mapped to the empty list and every other request to the list its own
\* lookup produced.
C3_StalledLookupAsStated ==
    (ResourcesManyOver /\ OneStalledOthersSucceeded) =>
        /\ outcome.kind = "return"
        /\ Len(outcome.value) = Len(op.requests)
        /\ \A i \in DOMAIN op.requests :
              /\ op.requests[i] \in Keys(outcome.value)
              /\ DictValue(outcome.value, op.requests[i]) =
                     IF Stalled(i) THEN <<>> ELSE tasks[i].value

\* the task started for the last occurrence of a request in the list
LastTaskFor(request) ==
    CHOOSE i \in DOMAIN op.requests :
        /\ op.requests[i] = request
        /\ \A j \in DOMAIN op.requests : op.requests[j] = request => j <= i

\* C3, amended: resources_many with N requests whose sub-lookups either succeed
\* or never complete returns a mapping with one entry per distinct request (of
\* size N when the N requests are pairwise distinct); a request maps to the empty
\* list if the sub-lookup started for its last occurrence stalled, and to the
\* list that sub-lookup produced otherwise.
C3_StalledLookup ==
    (/\ ResourcesManyOver
     /\ \A i \in DOMAIN tasks : Stalled(i) \/ tasks[i].status = "result") =>
        /\ outcome.kind = "return"
        /\ Len(outcome.value) = Cardinality(Range(op.requests))
        /\ Keys(outcome.value) = Range(op.requests)
        /\ \A request \in Range(op.requests) :
              DictValue(outcome.value, request) =
                  IF Stalled(LastTaskFor(request)) THEN <<>>
                  ELSE tasks[LastTaskFor(request)].value

\* two different requests, the lookup of the first stalled and was cancelled by
\* the call, the second produced a non-empty list: a mapping of size two
C3_Witness ==
    /\ ResourcesManyOver
    /\ Len(op.requests) = 2
    /\ op.requests[1] # op.requests[2]
    /\ tasks[1].status = "cancel_requested"
    /\ tasks[2].status = "result"
    /\ tasks[2].value # <<>>
    /\ outcome.kind = "return"
    /\ Len(outcome.value) = 2
    /\ DictValue(outcome.value, op.requests[1]) = <<>>
    /\ DictValue(outcome.value, op.requests[2]) = tasks[2].value

\* C4: however the sub-lookup tasks end (result, exception, cancellation, still
\* running at the timeout), resources_many returns a mapping, in which a failed
\* or unfinished sub-lookup has the empty list; no exception of a sub-task
\* leaves the batch call.
C4_BatchNeverRaises ==
    ResourcesManyOver =>
        /\ outcome.kind = "return"
        /\ \A k \in DOMAIN outcome.value :
              tasks[DictValue(taskOf, outcome.value[k].key)].status # "result"
                  => outcome.value[k].value = <<>>

\* C5: resources_many launches one sub-task per distinct request, and once it
\* has returned no task it started is still running uncancelled, the tasks
\* started for requests that occur more than once included.
C5_NoTaskLeftRunning ==
    ResourcesManyOver =>
        /\ Len(tasks) = Cardinality(Range(op.requests))
        /\ \A i \in DOMAIN tasks : tasks[i].status # "pending"

-----------------------------------------------------------------------------
(* The subject lookup *)

SubjectRefs ==
    {ObjectReference("user", "1"), ObjectReference("user", "2"),
     ObjectReference("group", "2")}

\* the lists of trees whose sizes add up to total, given the trees of each size
RECURSIVE ChildLists(_, _)
ChildLists(total, bySize) ==
    IF total = 0 THEN {<<>>}
    ELSE UNION {{<<child>> \o rest : child \in bySize[k],
                                     rest \in ChildLists(total - k, bySize)} :
                   k \in 1..total}

\* The trees of size n, given the trees of each smaller size.  The size of a
\* tree is the number of its nodes plus the number of subjects its leaves list.
TreesOfSize(n, bySize) ==
    IF n = 1 THEN {LeafNode(<<>>)}
    ELSE {LeafNode(subjects) : subjects \in [1..(n - 1) -> SubjectRefs]}
         \cup {IntermediateNode(children) : children \in ChildLists(n - 1, bySize)}

RECURSIVE TreesBySize(_, _)
TreesBySize(bySize, n) ==
    IF Len(bySize) = n THEN bySize
    ELSE TreesBySize(Append(bySize, TreesOfSize(Len(bySize) + 1, bySize)), n)

\* the expansion trees the remote side may return
AllTrees == UNION Range(TreesBySize(<<>>, MaxTreeSize))

NextSubjects ==
    \/ pc = "idle" /\ \E subject_type \in {"user", "group"}, full_consistent \in BOOLEAN :
                         SubjectsCall("doc", IntId(1), "view", subject_type, full_consistent)
    \/ pc = "await" /\ \E tree_root \in AllTrees : SubjectsResume(tree_root)
    \/ SubjectsInvalidResponse
    \/ TransportError
    \/ Return

SpecSubjects == Init /\ [][NextSubjects]_vars

-----------------------------------------------------------------------------
(* Properties of the subject lookup *)

\* the subjects listed in the leaves of a tree
RECURSIVE LeafSubjects(_)
LeafSubjects(root) ==
    Range(root.subjects)
    \cup UNION {LeafSubjects(root.children[i]) : i \in DOMAIN root.children}

SubjectsReturned ==
    /\ pc = "done"
    /\ op.name = "subjects"
    /\ outcome.kind = "return"

\* how many times the leaves of a tree list a subject
RECURSIVE Listed(_, _), ListedInAll(_, _)
Listed(root, subject) ==
    Cardinality({k \in DOMAIN root.subjects : root.subjects[k] = subject})
    + ListedInAll(root.children, subject)
ListedInAll(children, subject) ==
    IF children = <<>> THEN 0
    ELSE Listed(Head(children), subject) + ListedInAll(Tail(children), subject)

\* C9: whatever expansion tree the remote side returns and whatever the
\* subject_type filter is, subjects returns only ids taken from leaf subjects
\* whose object type equals the filter: an id is returned no more often than the
\* leaves list a subject of the filter's type with that id, so no leaf subject of
\* another type contributes an id to the result.
C9_SubjectsOnlyOfFilteredType ==
    SubjectsReturned =>
        \A id \in Range(outcome.value) :
            Cardinality({k \in DOMAIN outcome.value : outcome.value[k] = id})
                <= Listed(resp.tree_root, ObjectReference(op.subject_type, id))

\* a tree with nested intermediate nodes lists user:1, user:2 and group:2, and
\* the lookup of groups returns the id 2 once: neither user contributed an id
C9_Witness ==
    /\ SubjectsReturned
    /\ op.subject_type = "group"
    /\ \E i \in DOMAIN resp.tree_root.children :
           resp.tree_root.children[i].children # <<>>
    /\ ObjectReference("user", "1") \in LeafSubjects(resp.tree_root)
    /\ ObjectReference("group", "2") \in LeafSubjects(resp.tree_root)
    /\ ObjectReference("user", "2") \in LeafSubjects(resp.tree_root)
    /\ outcome.value = <<"2">>

\* Every listing of a subject by a leaf, with the path that leads to it from the
\* root: the positions of the children taken, then the position in the leaf.
RECURSIVE Occurrences(_, _)
Occurrences(root, path) ==
    {[path |-> Append(path, k), subject |-> root.subjects[k]] :
        k \in DOMAIN root.subjects}
    \cup UNION {Occurrences(root.children[i], Append(path, i)) :
                   i \in DOMAIN root.children}

\* path p lies to the left of path q: at the first position where they part, p
\* takes the earlier child (or the earlier subject of the same leaf)
LeftOf(p, q) ==
    \E i \in DOMAIN p \cap DOMAIN q :
        /\ p[i] < q[i]
        /\ \A j \in 1..(i - 1) : p[j] = q[j]

\* C15: subjects returns the ids of the leaf subjects of the filter's type in
\* depth-first, left-to-right order of the expansion tree: every listing of such
\* a subject by a leaf gives exactly one element of the result, and that element
\* stands after the elements of all the listings to its left, the subjects of
\* one leaf in listed order and the children of one node in child order.
C15_DepthFirstLeftToRight ==
    SubjectsReturned =>
        LET matching == {o \in Occurrences(resp.tree_root, <<>>) :
                            o.subject.object_type = op.subject_type}
            Position(o) == 1 + Cardinality({x \in matching : LeftOf(x.path, o.path)})
        IN /\ Len(outcome.value) = Cardinality(matching)
           /\ \A o \in matching : outcome.value[Position(o)] = o.subject.object_id

\* the root has a leaf listing user:2 to the left of an intermediate node whose
\* leaf lists user:1, and the lookup of users returned 2 before 1
C15_Witness ==
    /\ SubjectsReturned
    /\ op.subject_type = "user"
    /\ Len(resp.tree_root.children) = 2
    /\ resp.tree_root.children[1].subjects = <<ObjectReference("user", "2")>>
    /\ resp.tree_root.children[2].children # <<>>
    /\ outcome.value = <<"2", "1">>

-----------------------------------------------------------------------------
(* The relationship reads against a store filled by grants *)

\* the grants that fill the store: two relations and a second resource for
\* user:1, the same relation once more through a subject relation, and a group
StoredUpdates ==
    {RelationUpdateRequest("doc", IntId(42), "owner", "user", IntId(1), "", "grant"),
     RelationUpdateRequest("doc", IntId(42), "viewer", "user", IntId(1), "", "grant"),
     RelationUpdateRequest("doc", StrId("7"), "owner", "user", IntId(1), "", "grant"),
     RelationUpdateRequest("doc", IntId(42), "owner", "user", IntId(1), "member", "grant"),
     RelationUpdateRequest("doc", IntId(42), "owner", "group", StrId("2"), "", "grant")}

\* the subjects the reads ask about
ReadSubjects ==
    {[subject_type |-> "user", subject_id |-> IntId(1)],
     [subject_type |-> "group", subject_id |-> StrId("2")]}

NextRead ==
    \/ pc = "idle" /\ \E update \in StoredUpdates : UpdateCall("update", <<update>>)
    \/ pc = "await" /\ \E response \in WriteResponses : UpdateResume(response)
    \/ pc = "idle" /\ \E r \in {IntId(42), StrId("7")}, rel \in Relations, s \in ReadSubjects :
                         CheckRelationCall("doc", r, rel, s.subject_type, s.subject_id)
    \/ CheckRelationResume
    \/ pc = "idle" /\ \E s \in ReadSubjects, rel \in {"", "owner"}, limit \in {0, 1} :
                         ResourcesWithRelationsCall("doc", s.subject_type, s.subject_id,
                                                    rel, limit)
    \/ ResourcesWithRelationsItem
    \/ ResourcesWithRelationsYield
    \/ pc = "idle" /\ \E r \in {None, IntId(42)}, st \in {"", "user"}, limit \in {0, 1} :
                         SubjectsWithRelationsCall("doc", r, st, limit)
    \/ SubjectsWithRelationsItem
    \/ SubjectsWithRelationsYield
    \/ StreamEnd
    \/ StreamError
    \/ GeneratorEnd
    \/ TransportError
    \/ Return

SpecRead == Init /\ [][NextRead]_vars

-----------------------------------------------------------------------------
(* Properties of the relationship reads *)

\* C13: check_relation(resource, relation, subject) returns true if the store
\* holds a relationship tuple between exactly that resource and that subject
\* carrying exactly that relation, and false otherwise: when the pair has no
\* tuple at all and when it only has tuples with another relation.
C13_CheckRelationIffTupleExists ==
    (pc = "done" /\ op.name = "check_relation" /\ outcome.kind = "return") =>
        (outcome.value = TRUE <=>
            \E t \in store :
                /\ t.resource = ObjectReference(op.resource_type, Str(op.resource_id))
                /\ t.subject = ObjectReference(op.subject_type, Str(op.subject_id))
                /\ t.relation = op.relation)

\* check_relation returned false for a pair that holds another relation, while
\* another resource holds the relation asked for with the same subject
C13_Witness ==
    /\ pc = "done"
    /\ op.name = "check_relation"
    /\ outcome = Returns(FALSE)
    /\ \E t \in store :
          /\ t.resource = ObjectReference(op.resource_type, Str(op.resource_id))
          /\ t.subject = ObjectReference(op.subject_type, Str(op.subject_id))
          /\ t.relation # op.relation
    /\ \E t \in store :
          /\ t.resource # ObjectReference(op.resource_type, Str(op.resource_id))
          /\ t.subject = ObjectReference(op.subject_type, Str(op.subject_id))
          /\ t.relation = op.relation

WithRelationsOps == {"resources_with_relations", "subjects_with_relations"}

WithRelationsReturned ==
    /\ pc = "done"
    /\ op.name \in WithRelationsOps
    /\ outcome.kind = "return"

\* what an item of the stream is grouped under, and the same of a returned entry
GroupOfItem(item) ==
    IF op.name = "resources_with_relations" THEN item.resource.object_id
    ELSE <<item.subject.object_type, item.subject.object_id>>

GroupOfEntry(entry) ==
    IF op.name = "resources_with_relations" THEN entry.resource_id
    ELSE <<entry.subject_type, entry.subject_id>>

\* C14: whatever relationships the stream held and in whatever order, the list
\* returned by resources_with_relations has exactly one entry per distinct
\* resource id observed in the stream and no other entry, and the relations of
\* an entry are exactly the relation names the stream held for that resource id,
\* each once; subjects_with_relations does the same per distinct pair of subject
\* type and subject id.
C14_OneEntryPerGroup ==
    WithRelationsReturned =>
        LET items == resp.items
            observed == {GroupOfItem(items[i]) : i \in DOMAIN items}
        IN /\ Len(outcome.value) = Cardinality(observed)
           /\ \A g \in observed :
                 Cardinality({k \in DOMAIN outcome.value :
                                 GroupOfEntry(outcome.value[k]) = g}) = 1
           /\ \A k \in DOMAIN outcome.value :
                 LET entry == outcome.value[k] IN
                 /\ Range(entry.relations) =
                        {items[i].relation :
                            i \in {j \in DOMAIN items :
                                      GroupOfItem(items[j]) = GroupOfEntry(entry)}}
                 /\ Len(entry.relations) = Cardinality(Range(entry.relations))

\* resources_with_relations read four relationships of two resources, one
\* relation of the first resource twice, and returned two entries, the first
\* resource with its two relations
C14_Witness ==
    /\ WithRelationsReturned
    /\ op.name = "resources_with_relations"
    /\ Len(resp.items) = 4
    /\ Len(outcome.value) = 2
    /\ \E k \in DOMAIN outcome.value :
          /\ outcome.value[k].resource_id = "42"
          /\ Len(outcome.value[k].relations) = 2

\* the stream of the request on the wire was read to its end
StreamConsumed ==
    /\ resp.kind = "stream"
    /\ resp.items = frame.read
    /\ \/ Range(frame.read) = Selected(store, wire[1].relationship_filter)
       \/ wire[1].optional_limit # 0 /\ Len(frame.read) = wire[1].optional_limit

\* C16: resources_with_relations_generator and subjects_with_relations_generator
\* yield nothing before the streamed listing was read to its end: whenever a
\* group has been yielded the stream is over and every item of it was read, and
\* when the stream failed, before or after any item, nothing has been yielded and
\* the caller gets the error.
C16_NoYieldBeforeStreamEnd ==
    (op.name \in WithRelationsOps) =>
        /\ frame.yielded # <<>> => (pc \in {"yield", "done"} /\ StreamConsumed)
        /\ pc = "stream" => frame.yielded = <<>>
        /\ resp.kind = "error" =>
               /\ frame.yielded = <<>>
               /\ outcome = Raises("TransportError")

\* subjects_with_relations has yielded its first group of two, after it read
\* three relationships
C16_Witness ==
    /\ pc = "yield"
    /\ op.name = "subjects_with_relations"
    /\ Len(frame.read) = 3
    /\ Len(frame.groups) = 2
    /\ Len(frame.yielded) = 1

====
